---------------------------- MODULE Spec2Model ----------------------------
(***************************************************************************)
(* A model of mbgl-renderer's request pipeline: the server's renderImage   *)
(* (parameter checks), render (viewport, style imports and their merge,    *)
(* the mbtiles check, the renderer instance, icons, the render call, PNG), *)
(* and the resource fetchers (requestHandler, getRemoteTile,               *)
(* getRemoteAsset, getRemoteJSON, getRemoteStyleImport).                   *)
(*                                                                         *)
(* Strings are sequences of one-character strings, so that concatenation,  *)
(* prefixes, JSON.stringify and the regular expression are computed        *)
(* character by character.  A JavaScript value is a record tagged by its   *)
(* typeof: [t |-> "undefined"], [t |-> "null"], [t |-> "string", s |-> _], *)
(* [t |-> "number", n |-> _], [t |-> "object", o |-> _].                   *)
(***************************************************************************)
EXTENDS Integers, Sequences, FiniteSets, TLC

\* ------------------------------------------------------------ bounds
\* The longest imports list of a request of the pipeline specification.
MaxImports == 2
\* The longest imports list of a request of the merge specification.
MaxMergeImports == 2
\* The most resource requests the renderer issues for one map.
MaxResources == 2

\* ----------------------------------------------------------- strings
s_composite == <<"c","o","m","p","o","s","i","t","e">>
s_mapbox_scheme == <<"m","a","p","b","o","x",":","/","/">>
s_mapbox_styles == <<"m","a","p","b","o","x",":","/","/","s","t","y","l","e","s">>
s_mapbox_styles_slash ==
    <<"m","a","p","b","o","x",":","/","/","s","t","y","l","e","s","/">>
s_mbtiles_scheme == <<"m","b","t","i","l","e","s",":","/","/">>

\* the property names of a style, a layer and a source
K ==
    [id |-> <<"i","d">>,
     source |-> <<"s","o","u","r","c","e">>,
     url |-> <<"u","r","l">>,
     color |-> <<"c","o","l","o","r">>,
     version |-> <<"v","e","r","s","i","o","n">>,
     sources |-> <<"s","o","u","r","c","e","s">>,
     layers |-> <<"l","a","y","e","r","s">>,
     fog |-> <<"f","o","g">>,
     glyphs |-> <<"g","l","y","p","h","s">>,
     sprite |-> <<"s","p","r","i","t","e">>]

\* the strings of the styles and requests of the specifications: source
\* keys, ids, URLs, a token
Text ==
    [roads |-> <<"r","o","a","d","s">>,
     basemap |-> <<"b","a","s","e","m","a","p">>,
     basemap_roads |-> <<"b","a","s","e","m","a","p","-","r","o","a","d","s">>,
     ov |-> <<"o","v">>,
     own |-> <<"o","w","n">>,
     http_a |-> <<"h","t","t","p",":","/","/","a">>,
     http_b |-> <<"h","t","t","p",":","/","/","b">>,
     http_c |-> <<"h","t","t","p",":","/","/","c">>,
     mbtiles_foo |-> <<"m","b","t","i","l","e","s",":","/","/","f","o","o">>,
     mbtiles_foo_123 |->
        <<"m","b","t","i","l","e","s",":","/","/","f","o","o","/","1","/","2","/","3">>,
     MBTiles_foo |-> <<"M","B","T","i","l","e","s",":","/","/","f","o","o">>,
     mapbox_style_url |->
        <<"m","a","p","b","o","x",":","/","/","s","t","y","l","e","s","/","u","/","s">>,
     mapbox_stylesheet |->
        <<"m","a","p","b","o","x",":","/","/","s","t","y","l","e","s","h","e","e","t">>,
     mapbox_tiles |-> <<"m","a","p","b","o","x",":","/","/","t">>,
     tok |-> <<"t","o","k">>,
     data_png |-> <<"d","a","t","a",":",";","b","a","s","e","6","4",",","x">>]

Whitespace == {" "}

\* String.prototype.startsWith
StartsWith(s, prefix) ==
    /\ Len(prefix) <= Len(s)
    /\ \A i \in 1..Len(prefix) : s[i] = prefix[i]

\* the case folding of the regular expression's i flag, on the letters of
\* the scheme
ToLower(c) ==
    CASE c = "M" -> "m" [] c = "B" -> "b" [] c = "T" -> "t" [] c = "I" -> "i"
      [] c = "L" -> "l" [] c = "E" -> "e" [] c = "S" -> "s" [] OTHER -> c

Digit == <<"0","1","2","3","4","5","6","7","8","9">>

RECURSIVE NumStr(_)
\* Number.prototype.toString of a natural number
NumStr(n) == IF n < 10 THEN <<Digit[n + 1]>>
             ELSE NumStr(n \div 10) \o <<Digit[(n % 10) + 1]>>

\* ------------------------------------------------------ JavaScript values
Undefined == [t |-> "undefined"]
Null == [t |-> "null"]
Str(s) == [t |-> "string", s |-> s]
Num(n) == [t |-> "number", n |-> n]
Obj(o) == [t |-> "object", o |-> o]

\* typeof v
TypeOf(v) == IF v.t = "null" THEN "object" ELSE v.t

\* the truthiness of a value: !v is ~Truthy(v)
Truthy(v) ==
    CASE v.t = "undefined" -> FALSE
      [] v.t = "null" -> FALSE
      [] v.t = "string" -> v.s # <<>>
      [] v.t = "number" -> v.n # 0
      [] v.t = "nan" -> FALSE
      [] OTHER -> TRUE

\* ------------------------------------------------ objects (ordered maps)
\* An object is the sequence of its own properties [k |-> key, v |-> value]
\* in the order Object.keys and JSON.stringify enumerate them, the order of
\* insertion (no key of a style of the model is an array index, which
\* would come first).
ObjHas(o, k) == \E i \in 1..Len(o) : o[i].k = k

ObjGet(o, k) == o[CHOOSE i \in 1..Len(o) : o[i].k = k].v

\* o[k] = v : an existing property keeps its place and takes the new value
ObjSet(o, k, v) ==
    IF ObjHas(o, k)
    THEN [i \in 1..Len(o) |-> IF o[i].k = k THEN [k |-> k, v |-> v] ELSE o[i]]
    ELSE Append(o, [k |-> k, v |-> v])

\* ------------------------------------------------------------ the merge
\* const importId = id || idx.toString()
ImportId(id, idx) == IF id # <<>> THEN id ELSE NumStr(idx)

\* `${importId}-${key}` for every key
RenamedKeyNoComposite(importId, key) == importId \o <<"-">> \o key

\* key === 'composite' ? importId : `${importId}-${key}`
RenamedKey(importId, key) ==
    IF key = s_composite THEN importId ELSE importId \o <<"-">> \o key

RECURSIVE AddSources(_, _, _, _)
\* Object.keys(importedStyle.sources).forEach(...), from the i-th key on
AddSources(sources, importId, imported, i) ==
    IF i > Len(imported) THEN sources
    ELSE AddSources(ObjSet(sources, RenamedKey(importId, imported[i].k), imported[i].v),
                    importId, imported, i + 1)

\* the source of an imported layer after the rewrite
LayerSource(importId, source) ==
    IF ~Truthy(source) THEN Undefined
    ELSE Str(RenamedKey(importId, source.s))

\* importedStyle.layers.map((layer) => ({...layer, source: ...}))
ImportedLayers(importId, layers) ==
    [i \in 1..Len(layers) |->
        [layers[i] EXCEPT !.source = LayerSource(importId, layers[i].source)]]

\* correctedStyle.layers = [...importedLayers, ...correctedStyle.layers]
PlaceLayers(importedLayers, layers) == importedLayers \o layers

\* the copy without the test of the base style's value
CopyIfUnsetAlways(current, imported, type) ==
    IF TypeOf(imported) = type THEN imported ELSE current

\* if (typeof importedStyle.fog === 'object' && !correctedStyle.fog), and
\* the same with 'string' for glyphs and sprite: the value the base style
\* has after the step
CopyIfUnset(current, imported, type) ==
    IF TypeOf(imported) = type /\ ~Truthy(current) THEN imported ELSE current

\* One iteration of importedStyles.forEach: the style after it and whether
\* it ran to its end.  Object.keys(undefined) throws before anything is
\* written; undefined.map throws after the sources were written.
MergeImport(style, id, imported, idx) ==
    LET importId == ImportId(id, idx)
    IN  IF ~imported.hasSources THEN [ok |-> FALSE, style |-> style]
        ELSE LET s1 == [style EXCEPT
                           !.sources = AddSources(style.sources, importId,
                                                  imported.sources, 1)]
             IN IF ~imported.hasLayers THEN [ok |-> FALSE, style |-> s1]
                ELSE [ok |-> TRUE,
                      style |-> [s1 EXCEPT
                        !.layers = PlaceLayers(
                            ImportedLayers(importId, imported.layers), s1.layers),
                        !.fog = CopyIfUnset(s1.fog, imported.fog, "object"),
                        !.glyphs = CopyIfUnset(s1.glyphs, imported.glyphs, "string"),
                        !.sprite = CopyIfUnset(s1.sprite, imported.sprite, "string")]]

RECURSIVE MergeFrom(_, _, _, _)
\* importedStyles.forEach(...) from the i-th import on (idx = i - 1); a
\* throwing iteration ends the loop with the style as written so far
MergeFrom(style, ids, importedStyles, i) ==
    IF i > Len(importedStyles) THEN [ok |-> TRUE, style |-> style]
    ELSE LET r == MergeImport(style, ids[i], importedStyles[i], i - 1)
         IN IF r.ok THEN MergeFrom(r.style, ids, importedStyles, i + 1) ELSE r

MergeImports(style, ids, importedStyles) == MergeFrom(style, ids, importedStyles, 1)

\* ------------------------------------------------------- JSON.stringify
\* The strings of the model hold no character that JSON.stringify escapes.
JsonString(s) == <<"\"">> \o s \o <<"\"">>

\* a primitive value; an undefined value is never serialized (its property
\* is left out by the callers)
JsonPrim(v) ==
    CASE v.t = "null" -> <<"n","u","l","l">>
      [] v.t = "string" -> JsonString(v.s)
      [] v.t = "number" -> NumStr(v.n)
      [] OTHER -> <<>>

RECURSIVE JoinComma(_)
JoinComma(parts) ==
    IF parts = <<>> THEN <<>>
    ELSE IF Len(parts) = 1 THEN parts[1]
    ELSE parts[1] \o <<",">> \o JoinComma(Tail(parts))

RECURSIVE Defined(_)
\* the properties of an object whose value is not undefined
Defined(o) ==
    IF o = <<>> THEN <<>>
    ELSE IF o[1].v.t = "undefined" THEN Defined(Tail(o))
    ELSE <<o[1]>> \o Defined(Tail(o))

\* an object whose properties are primitives
JsonFlat(o) ==
    LET d == Defined(o)
    IN <<"{">> \o JoinComma([i \in 1..Len(d) |->
                     JsonString(d[i].k) \o <<":">> \o JsonPrim(d[i].v)]) \o <<"}">>

\* a value that is a primitive or an object of primitives
JsonValue(v) == IF v.t = "object" THEN JsonFlat(v.o) ELSE JsonPrim(v)

\* an object whose properties are values
JsonObject(o) ==
    LET d == Defined(o)
    IN <<"{">> \o JoinComma([i \in 1..Len(d) |->
                     JsonString(d[i].k) \o <<":">> \o JsonValue(d[i].v)]) \o <<"}">>


JsonLayer(layer) ==
    JsonFlat(<<[k |-> K.id, v |-> Str(layer.id)], [k |-> K.source, v |-> layer.source]>>)

JsonLayers(layers) ==
    <<"[">> \o JoinComma([i \in 1..Len(layers) |-> JsonLayer(layers[i])]) \o <<"]">>

JsonMember(k, text) == JsonString(k) \o <<":">> \o text

\* JSON.stringify(correctedStyle)
StringifyStyle(style) ==
    LET opt(k, v) == IF v.t = "undefined" THEN <<>> ELSE <<JsonMember(k, JsonValue(v))>>
    IN <<"{">> \o JoinComma(
            <<JsonMember(K.version, JsonPrim(style.version)),
              JsonMember(K.sources, JsonObject(style.sources)),
              JsonMember(K.layers, JsonLayers(style.layers))>>
            \o opt(K.fog, style.fog) \o opt(K.glyphs, style.glyphs)
            \o opt(K.sprite, style.sprite)) \o <<"}">>

\* ------------------------------------------------------ MBTILES_REGEXP
\* /mbtiles:\/\/(\S+?)(?=[/"]+)/g, without the i flag, has a match at p
MatchesAtCaseSensitive(text, p) ==
    /\ p + Len(s_mbtiles_scheme) - 1 <= Len(text)
    /\ \A j \in 1..Len(s_mbtiles_scheme) : text[p + j - 1] = s_mbtiles_scheme[j]
    /\ \E q \in (p + Len(s_mbtiles_scheme))..(Len(text) - 1) :
          /\ \A r \in (p + Len(s_mbtiles_scheme))..q : text[r] \notin Whitespace
          /\ text[q + 1] \in {"/", "\""}

\* /mbtiles:\/\/(\S+?)(?=[/"]+)/gi has a match in text: the scheme in any
\* case at p, then one or more characters that are not whitespace, up to
\* q, then a slash or a double quote
MatchesAt(text, p) ==
    /\ p + Len(s_mbtiles_scheme) - 1 <= Len(text)
    /\ \A j \in 1..Len(s_mbtiles_scheme) :
          ToLower(text[p + j - 1]) = s_mbtiles_scheme[j]
    /\ \E q \in (p + Len(s_mbtiles_scheme))..(Len(text) - 1) :
          /\ \A r \in (p + Len(s_mbtiles_scheme))..q : text[r] \notin Whitespace
          /\ text[q + 1] \in {"/", "\""}

\* text.match(MBTILES_REGEXP) is not null
MBTILES_REGEXP(text) == \E p \in 1..Len(text) : MatchesAt(text, p)

\* no test of the style
LocalMbtilesMatchesNever(style) == FALSE

\* localMbtilesMatches, of the style after the merge
LocalMbtilesMatches(style) == MBTILES_REGEXP(StringifyStyle(style))

\* ---------------------------------------------------------- responses
\* What a fetch settles with: a response (a status and a body) or a failure
\* of the transport (a network error, or the abort of AbortSignal.timeout).
\* A body is what response.json() makes of it; arrayBuffer() always gives
\* its bytes.
NoBody == [t |-> "none"]

Statuses == {200, 204, 206, 301, 404, 500}

\* bodies of a fetch of bytes (a tile, a glyph range, a sprite, ...)
ByteResponses == [fail : {"none"}, status : Statuses, body : {NoBody}]

Failures == [fail : {"network", "timeout"}, status : {0}, body : {NoBody}]

\* res.ok
Ok(status) == status >= 200 /\ status <= 299

\* ------------------------------------------------------- the fetchers
\* What a fetcher's first .then() settles with, before the callback is
\* invoked: "bytes" (a RequestResponse with data), "null", or "error".
\* a tile fetch with no status exempted
getRemoteTileStrict(resp) ==
    IF resp.fail # "none" THEN "error"
    ELSE IF ~Ok(resp.status) THEN "error"
    ELSE "bytes"

\* getRemoteTile
getRemoteTile(resp) ==
    IF resp.fail # "none" THEN "error"
    ELSE IF resp.status = 204 THEN "null"
    ELSE IF resp.status = 404 THEN "null"
    ELSE IF ~Ok(resp.status) THEN "error"
    ELSE "bytes"

\* an asset fetch that takes 404 as the tile fetch does
getRemoteAssetTolerant(resp) ==
    IF resp.fail # "none" THEN "error"
    ELSE IF resp.status = 404 THEN "null"
    ELSE IF ~Ok(resp.status) THEN "error"
    ELSE "bytes"

\* getRemoteAsset
getRemoteAsset(resp) ==
    IF resp.fail # "none" THEN "error"
    ELSE IF ~Ok(resp.status) THEN "error"
    ELSE "bytes"

\* an invocation of a resource callback: callback(err) or callback(null, data)
CbError == [err |-> TRUE, data |-> "none"]
CbResult(data) == [err |-> FALSE, data |-> data]

\* .then((res) => callback(null, res)).catch((error) => callback(error)):
\* the invocations of the callback, which throws (throws) or not when it is
\* handed a result
Deliver(outcome, throws) ==
    IF outcome = "error" THEN <<CbError>>
    ELSE <<CbResult(outcome)>> \o (IF throws THEN <<CbError>> ELSE <<>>)

\* isMapboxURL, isMapboxStyleURL
isMapboxURL(url) == StartsWith(url, s_mapbox_scheme)
isMapboxStyleURL(url) == StartsWith(url, s_mapbox_styles_slash)

\* a choice that sends the tiles to the fetcher of the assets
RouteTilesAsAssets(url, kind) ==
    IF isMapboxURL(url) THEN "reject"
    ELSE IF kind \in 2..7 THEN "asset"
    ELSE "unhandled"

\* requestHandler's choice for a request: "reject" (a Mapbox URL), the
\* fetcher to call, or "unhandled" (the default case, which throws into the
\* catch clause)
Route(url, kind) ==
    IF isMapboxURL(url) THEN "reject"
    ELSE IF kind = 3 THEN "tile"
    ELSE IF kind \in {2, 4, 5, 6, 7} THEN "asset"
    ELSE "unhandled"

\* getRemoteJSON: fulfilled with the parsed body, or rejected
getRemoteJSON(resp) ==
    IF resp.fail # "none" THEN [ok |-> FALSE, value |-> NoBody]
    ELSE IF ~Ok(resp.status) THEN [ok |-> FALSE, value |-> NoBody]
    ELSE IF resp.body.t = "invalid" THEN [ok |-> FALSE, value |-> NoBody]
    ELSE [ok |-> TRUE, value |-> resp.body]

\* !importedStyle
BodyFalsy(b) == b.t \in {"null", "zero"}

\* the checks without the one of the version's value
ValidImportAnyVersion(b) == ~BodyFalsy(b) /\ b.t = "object" /\ b.hasVersion

\* the checks of getRemoteStyleImport on the fetched value
ValidImport(b) ==
    /\ ~BodyFalsy(b)
    /\ ~(b.t # "object" \/ ~b.hasVersion \/ b.version # Num(8))

\* getRemoteStyleImport, once its fetch has settled with resp
getRemoteStyleImport(resp) ==
    LET r == getRemoteJSON(resp)
    IN IF r.ok /\ ValidImport(r.value) THEN [ok |-> TRUE, value |-> r.value]
       ELSE [ok |-> FALSE, value |-> NoBody]

\* ------------------------------------------------------ import URLs
s_api_mapbox ==
    <<"h","t","t","p","s",":","/","/","a","p","i",".","m","a","p","b","o","x",".","c","o","m">>
s_access_token ==
    <<"?","a","c","c","e","s","s","_","t","o","k","e","n","=">>
s_secure ==
    <<"&","s","e","c","u","r","e","=","t","r","u","e">>

\* String(token): token is null or a string
TokenText(token) == IF token.t = "null" THEN <<"n","u","l","l">> ELSE token.s

\* new URL(url).pathname of a URL that begins with mapbox://styles/ (the
\* host is "styles"); the URLs of the model have no query and no fragment
StylePathname(url) == SubSeq(url, Len(s_mapbox_styles) + 1, Len(url))

\* normalizeMapboxStyleURL
normalizeMapboxStyleURL(url, token) ==
    s_api_mapbox \o StylePathname(url) \o s_access_token \o TokenText(token) \o s_secure

\* importStyleUrl of getRemoteStyleImport: the URL that is fetched
ImportStyleUrl(url, token) ==
    IF isMapboxStyleURL(url) THEN normalizeMapboxStyleURL(url, token) ELSE url

\* ------------------------------------------------------ the parameters
\* A request is a record of decoded values: a number is Num(n) or Nan, a
\* list is Arr(<<...>>), an absent field is Null (the destructuring default)
\* or Undefined (width, height).
Nan == [t |-> "nan"]
Arr(a) == [t |-> "array", a |-> a]

\* Number.isFinite(v)
IsFinite(v) == v.t = "number"

\* Math.abs(v) > n
AbsGt(v, n) == v.t = "number" /\ (v.n > n \/ (0 - v.n) > n)

\* v < n
Less(v, n) == v.t = "number" /\ v.n < n

\* v < lo || v > hi
Outside(v, lo, hi) == v.t = "number" /\ (v.n < lo \/ v.n > hi)

\* new URL(u) does not throw: u begins with a scheme, letters and a colon
IsLetter(c) ==
    c \in {"a","b","c","d","e","f","g","h","i","j","k","l","m","n","o","p","q",
           "r","s","t","u","v","w","x","y","z"}

IsURL(u) == \E i \in 2..Len(u) : u[i] = ":" /\ \A j \in 1..(i - 1) : IsLetter(u[j])

\* parseInt(width, 10) of a decoded width
ParseInt(v) == IF v.t = "number" THEN v ELSE Nan

\* Math.abs(padding) >= size / 2
PaddingTooLarge(padding, size) ==
    /\ padding.t = "number" /\ size.t = "number"
    /\ 2 * (IF padding.n < 0 THEN 0 - padding.n ELSE padding.n) >= size.n

\* renderImage's checks of the images map
ImagesError(images) ==
    IF images.t = "null" THEN FALSE
    ELSE \E i \in 1..Len(images.o) :
            \/ ~(images.o[i].v.t = "object" /\ ObjHas(images.o[i].v.o, K.url))
            \/ LET u == ObjGet(images.o[i].v.o, K.url)
               IN ~(u.t = "string" /\ IsURL(u.s))

\* the checks of the imports list without the one of the URL
ImportsErrorAnyUrl(imports) ==
    IF imports.t = "null" THEN FALSE
    ELSE IF imports.t # "array" THEN TRUE
    ELSE \E i \in 1..Len(imports.a) :
            ~(imports.a[i].url # <<>> /\ imports.a[i].id # <<>>)

\* renderImage's checks of the imports list: whether it throws.  A value
\* that is no object throws 'imports must be an array'; an object that is
\* no array makes for...of throw a TypeError; an entry is [id, url], with
\* an empty string for what it lacks.
ImportsError(imports) ==
    IF imports.t = "null" THEN FALSE
    ELSE IF imports.t # "array" THEN TRUE
    ELSE \E i \in 1..Len(imports.a) :
            \/ ~(imports.a[i].url # <<>> /\ imports.a[i].id # <<>>)
            \/ /\ ~StartsWith(imports.a[i].url, s_mapbox_styles)
               /\ ~IsURL(imports.a[i].url)

\* the checks of center with >= for >
CenterErrorStrict(center) ==
    /\ center.t # "null"
    /\ \/ Len(center.a) # 2
       \/ ~IsFinite(center.a[1]) \/ AbsGt(center.a[1], 179)
       \/ ~IsFinite(center.a[2]) \/ AbsGt(center.a[2], 89)

\* renderImage's checks of center: whether one throws
CenterError(center) ==
    /\ center.t # "null"
    /\ \/ Len(center.a) # 2
       \/ ~IsFinite(center.a[1]) \/ AbsGt(center.a[1], 180)
       \/ ~IsFinite(center.a[2]) \/ AbsGt(center.a[2], 90)

\* the checks of bounds with west >= east and south >= north refused
BoundsErrorOrdered(bounds) ==
    /\ bounds.t # "null"
    /\ \/ Len(bounds.a) # 4
       \/ \E i \in 1..4 : ~IsFinite(bounds.a[i])
       \/ bounds.a[1].n >= bounds.a[3].n
       \/ bounds.a[2].n >= bounds.a[4].n

\* renderImage's checks of bounds: whether one throws
BoundsError(bounds) ==
    /\ bounds.t # "null"
    /\ \/ Len(bounds.a) # 4
       \/ \E i \in 1..4 : ~IsFinite(bounds.a[i])
       \/ bounds.a[1] = bounds.a[3]
       \/ bounds.a[2] = bounds.a[4]

\* the checks of padding made without bounds too
PaddingErrorAlways(q) ==
    /\ Truthy(q.padding)
    /\ PaddingTooLarge(q.padding, q.width) \/ PaddingTooLarge(q.padding, q.height)

\* renderImage's checks of padding, inside if (bounds !== null)
PaddingError(q) ==
    /\ q.bounds.t # "null"
    /\ Truthy(q.padding)
    /\ PaddingTooLarge(q.padding, q.width) \/ PaddingTooLarge(q.padding, q.height)

\* a cross-field check that takes center alone
CrossFieldErrorCenter(q) == ~(Truthy(q.center) \/ Truthy(q.bounds))

\* if (!((center && zoom !== null) || bounds))
CrossFieldError(q) == ~((Truthy(q.center) /\ q.zoom.t # "null") \/ Truthy(q.bounds))

\* the checks with those of the images and the imports made first
ValidateRequestListsFirst(q) ==
    IF ImagesError(q.images) THEN "images"
    ELSE IF ImportsError(q.imports) THEN "imports"
    ELSE IF CenterError(q.center) THEN "center"
    ELSE IF q.zoom.t # "null" /\ Outside(q.zoom, 0, 22) THEN "zoom"
    ELSE IF q.ratio.t # "null" /\ (~Truthy(q.ratio) \/ Less(q.ratio, 1)) THEN "ratio"
    ELSE IF BoundsError(q.bounds) THEN "bounds"
    ELSE IF PaddingError(q) THEN "padding"
    ELSE IF q.bearing.t # "null" /\ Outside(q.bearing, 0, 360) THEN "bearing"
    ELSE IF q.pitch.t # "null" /\ Outside(q.pitch, 0, 60) THEN "pitch"
    ELSE IF CrossFieldError(q) THEN "crossfield"
    ELSE "ok"

\* renderImage's checks, in the order of the code: "ok" or the rule that
\* throws
ValidateRequest(q) ==
    IF CenterError(q.center) THEN "center"
    ELSE IF q.zoom.t # "null" /\ Outside(q.zoom, 0, 22) THEN "zoom"
    ELSE IF q.ratio.t # "null" /\ (~Truthy(q.ratio) \/ Less(q.ratio, 1)) THEN "ratio"
    ELSE IF BoundsError(q.bounds) THEN "bounds"
    ELSE IF PaddingError(q) THEN "padding"
    ELSE IF q.bearing.t # "null" /\ Outside(q.bearing, 0, 360) THEN "bearing"
    ELSE IF q.pitch.t # "null" /\ Outside(q.pitch, 0, 60) THEN "pitch"
    ELSE IF CrossFieldError(q) THEN "crossfield"
    ELSE IF ImagesError(q.images) THEN "images"
    ELSE IF ImportsError(q.imports) THEN "imports"
    ELSE "ok"

\* render's own checks of its arguments: "ok" or the rule that throws
RenderChecks(q) ==
    LET width == ParseInt(q.width)
        height == ParseInt(q.height)
    IN  IF ~(Truthy(width) /\ Truthy(height)) THEN "dimensions"
        ELSE IF q.center.t # "null" /\ Len(q.center.a) # 2 THEN "center"
        ELSE IF q.center.t # "null" /\ AbsGt(q.center.a[1], 180) THEN "center"
        ELSE IF q.center.t # "null" /\ AbsGt(q.center.a[2], 90) THEN "center"
        ELSE IF q.zoom.t # "null" /\ Outside(q.zoom, 0, 22) THEN "zoom"
        ELSE IF q.bearing.t # "null" /\ Outside(q.bearing, 0, 360) THEN "bearing"
        ELSE IF q.pitch.t # "null" /\ Outside(q.pitch, 0, 60) THEN "pitch"
        ELSE IF q.bounds.t # "null" /\ Len(q.bounds.a) # 4 THEN "bounds"
        ELSE IF q.bounds.t # "null" /\ Truthy(q.padding)
                /\ PaddingTooLarge(q.padding, width) THEN "padding"
        ELSE IF q.bounds.t # "null" /\ Truthy(q.padding)
                /\ PaddingTooLarge(q.padding, height) THEN "padding"
        ELSE "ok"

\* whether render takes zoom and center from the bounds
DerivesViewport(q) ==
    q.bounds.t # "null" /\ (q.zoom.t = "null" \/ q.center.t = "null")

\* the window handed to geoViewport.viewport:
\* [width - 2 * padding, height - 2 * padding]
FitWindow(q) ==
    <<q.width.n - 2 * q.padding.n, q.height.n - 2 * q.padding.n>>

\* the viewport with the zoom of the fit as it is
ViewportOfFit(q, fit) ==
    IF DerivesViewport(q)
    THEN [zoom |-> fit.zoom, center |-> fit.center]
    ELSE [zoom |-> q.zoom, center |-> q.center]

\* zoom and center as render passes them to the renderer; fit is the result
\* of geoViewport.viewport(bounds, [width - 2 * padding, height - 2 * padding])
Viewport(q, fit) ==
    IF DerivesViewport(q)
    THEN [zoom |-> IF fit.zoom.t # "number" THEN Nan
                   ELSE IF fit.zoom.n - 1 > 0 THEN Num(fit.zoom.n - 1) ELSE Num(0),
          center |-> fit.center]
    ELSE [zoom |-> q.zoom, center |-> q.center]

\* ------------------------------------------------------------ the icons
s_base64 == <<"b","a","s","e","6","4",",">>
s_data == <<"d","a","t","a",":">>

\* url.split('base64,')[1] is defined
HasBase64(url) ==
    \E p \in 1..Len(url) :
        /\ p + Len(s_base64) - 1 <= Len(url)
        /\ \A j \in 1..Len(s_base64) : url[p + j - 1] = s_base64[j]

\* loadImage issues a fetch for the image
ImageIsFetched(url) == url # <<>> /\ ~StartsWith(url, s_data)

\* loadImage for one image, once its fetch (if any) has settled with resp:
\* TRUE when the image was added to the map.  decodes: sharp reads the
\* bytes; registers: map.addImage does not throw.
loadImage(url, resp, decodes, registers) ==
    IF url = <<>> THEN FALSE
    ELSE IF StartsWith(url, s_data) THEN HasBase64(url) /\ decodes /\ registers
    ELSE getRemoteAsset(resp) = "bytes" /\ decodes /\ registers

\* loadImage of the second render module (src/unnamed/part_000), which
\* fetches the image itself and does not look at the status:
\* fetch(url).then((res) => res.arrayBuffer())
loadImageCopy(url, resp, decodes, registers) ==
    IF url = <<>> THEN FALSE
    ELSE IF StartsWith(url, s_data) THEN HasBase64(url) /\ decodes /\ registers
    ELSE resp.fail = "none" /\ decodes /\ registers

\* ---------------------------------------------------------------- state
VARIABLES
    pc,        \* where render stands: "start", "awaitImports", "awaitImages",
               \* "awaitRender", "awaitPNG", "done"
    req,       \* the request's parameters, and the module it goes through (via)
    style0,    \* the caller's style document as it was passed in
    style,     \* the caller's style document (correctedStyle is the same object)
    served,    \* per import, what its server answers
    importSt,  \* per import, the promise of getRemoteStyleImport
    imageSt,   \* per image, the promise of loadImage
    map,       \* the renderer instance
    result,    \* what the caller has received
    viewport,  \* zoom and center as render computed them
    log,       \* the stages that ran, in order
    net,       \* the URLs fetched, in order
    fpc,       \* a resource request: "idle", "fetching", "json", "done"
    rq,        \* the resource request: url, kind, fetcher, throws
    calls,     \* the invocations of the resource request's callback
    jsonRes,   \* what getRemoteJSON and getRemoteStyleImport settled with
    lastIndex, \* MBTILES_REGEXP.lastIndex, the state of the module's /g pattern
    other      \* the requests that wait at an await while this one runs, each
               \* with its own values of pc, req, ..., net

pvars == <<pc, req, style0, style, served, importSt, imageSt, map, result, viewport,
           log, lastIndex, other>>
fvars == <<fpc, rq, calls, jsonRes, other>>
vars == <<pc, req, style0, style, served, importSt, imageSt, map, result, viewport,
          log, net,
          fpc, rq, calls, jsonRes, lastIndex, other>>

\* ------------------------------------------------- the render pipeline
NoError == [stage |-> "none", rule |-> "none"]
Err(stage, rule) == [stage |-> stage, rule |-> rule]

NoResult == [png |-> 0, errors |-> 0, error |-> NoError]
\* renderImage throws, and the route hands the error to next(err)
Failed(res, e) == [res EXCEPT !.errors = @ + 1, !.error = e]
\* renderImage returns the PNG bytes, and the route sends them
Sent(res) == [res EXCEPT !.png = @ + 1]

NoViewport == [zoom |-> Undefined, center |-> Undefined]

\* the renderer instance: outcome is what map.render's callback was given
\* rendered is the buffer as map.render gave it, buffer its bytes now;
\* options are the keys of the object given to new maplibre.Map, issued the
\* resource requests the renderer has made, delivered those of them that
\* were handed to requestHandler
NoMap == [created |-> FALSE, loaded |-> FALSE, images |-> {}, renders |-> 0,
          opts |-> NoViewport, outcome |-> "none", released |-> 0,
          rendered |-> <<>>, buffer |-> <<>>,
          options |-> {}, issued |-> 0, delivered |-> 0]

ImportCount(q) == IF q.imports.t # "array" THEN 0 ELSE Len(q.imports.a)
ImageCount(q) == IF q.images.t = "null" THEN 0 ELSE Len(q.images.o)
ImageUrl(q, j) == ObjGet(q.images.o[j].v.o, K.url).s

ImportIds(q) == [i \in 1..ImportCount(q) |-> q.imports.a[i].id]

\* the URLs the import fetches are issued for, in the order of imports.map
ImportFetches(q) ==
    [i \in 1..ImportCount(q) |-> ImportStyleUrl(q.imports.a[i].url, q.token)]

RECURSIVE ImageFetchesFrom(_, _)
\* the URLs loadImages fetches, in the order of Object.entries(images)
ImageFetchesFrom(q, j) ==
    IF j > ImageCount(q) THEN <<>>
    ELSE (IF ImageIsFetched(ImageUrl(q, j)) THEN <<ImageUrl(q, j)>> ELSE <<>>)
         \o ImageFetchesFrom(q, j + 1)

\* the promise of loadImage for an image: st is "pending", "loaded" or
\* "failed"; resp is what its fetch settled with, decodes and registers
\* whether sharp read the bytes and map.addImage took them
Pending == [st |-> "pending", resp |-> NoBody, decodes |-> FALSE, registers |-> FALSE]

\* renderMap(map, {zoom, center, ...}): the render call is issued
CallRender(m, view) == [m EXCEPT !.renders = @ + 1, !.opts = view]

\* render from the mbtiles check to its next await (lines 684-700), for the
\* style st: the values of the variables it leaves.  String.prototype.match
\* with a /g pattern sets the lastIndex of the pattern to 0 before it
\* searches and leaves it 0
Proceed(q, st, view, res, lg, nt) ==
    IF LocalMbtilesMatches(st)
    THEN [pc |-> "done", style |-> st, imageSt |-> <<>>, map |-> NoMap,
          result |-> Failed(res, Err("mbtiles", "mbtiles")),
          log |-> lg \o <<"mbtiles">>, net |-> nt, lastIndex |-> 0]
    ELSE LET \* new maplibre.Map({ ratio }); map.load(correctedStyle)
             m1 == [NoMap EXCEPT !.created = TRUE, !.loaded = TRUE,
                                 !.options = {"ratio"}]
             lg1 == lg \o <<"mbtiles", "create", "load", "icons">>
         IN IF ImageCount(q) = 0
            THEN [pc |-> "awaitRender", style |-> st, imageSt |-> <<>>,
                  map |-> CallRender(m1, view), result |-> res,
                  log |-> lg1 \o <<"render">>, net |-> nt, lastIndex |-> 0]
            ELSE IF \E j \in 1..ImageCount(q) : ImageUrl(q, j) = <<>>
            THEN [pc |-> "done", style |-> st,
                  imageSt |-> [j \in 1..ImageCount(q) |->
                      IF ImageUrl(q, j) = <<>> THEN [Pending EXCEPT !.st = "failed"]
                      ELSE Pending],
                  map |-> m1, result |-> Failed(res, Err("icons", "url")),
                  log |-> lg1, net |-> nt \o ImageFetchesFrom(q, 1), lastIndex |-> 0]
            ELSE [pc |-> "awaitImages", style |-> st,
                  imageSt |-> [j \in 1..ImageCount(q) |-> Pending],
                  map |-> m1, result |-> res,
                  log |-> lg1, net |-> nt \o ImageFetchesFrom(q, 1), lastIndex |-> 0]

\* the same, left unchanged
Stay == [pc |-> pc, style |-> style, imageSt |-> imageSt, map |-> map,
         result |-> result, log |-> log, net |-> net, lastIndex |-> lastIndex]

\* render throws e: renderImage wraps it and the caller gets the error
Throw(e) == [Stay EXCEPT !.pc = "done", !.result = Failed(result, e)]

Becomes(n) ==
    /\ pc' = n.pc
    /\ style' = n.style
    /\ imageSt' = n.imageSt
    /\ map' = n.map
    /\ result' = n.result
    /\ log' = n.log
    /\ net' = n.net
    /\ lastIndex' = n.lastIndex

\* the results geoViewport.viewport can give for the bounds.  It takes the
\* zoom from Math.log of the ratios (east - west) / width and
\* (south - north) / height in pixels: for bounds with west > east or
\* south > north, and for a window with a negative side, a ratio is
\* negative and the zoom is NaN
Fits(q) ==
    IF /\ q.bounds.t = "array"
       /\ Len(q.bounds.a) = 4
       /\ \A i \in 1..4 : q.bounds.a[i].t = "number"
       /\ \/ q.bounds.a[1].n > q.bounds.a[3].n
          \/ q.bounds.a[2].n > q.bounds.a[4].n
          \/ /\ q.width.t = "number" /\ q.height.t = "number"
             /\ q.padding.t = "number"
             /\ FitWindow(q)[1] < 0 \/ FitWindow(q)[2] < 0
    THEN {[zoom |-> Nan, center |-> Arr(<<Num(15), Num(15)>>)]}
    ELSE {[zoom |-> Num(0), center |-> Arr(<<Num(15), Num(15)>>)],
          [zoom |-> Num(9), center |-> Arr(<<Num(15), Num(15)>>)]}

\* render up to its first await: the checks of its arguments, the viewport
\* and the fetches of the imports; lg is the log so far
RenderStarts(fit, lg) ==
    LET view == Viewport(req, fit)
    IN  IF RenderChecks(req) # "ok"
        THEN /\ Becomes(Throw(Err("arguments", RenderChecks(req))))
             /\ UNCHANGED <<importSt, viewport>>
        ELSE IF ImportCount(req) > 0
        THEN /\ Becomes([Stay EXCEPT !.pc = "awaitImports",
                                     !.log = lg \o <<"viewport", "imports">>,
                                     !.net = net \o ImportFetches(req)])
             /\ importSt' = [i \in 1..ImportCount(req) |->
                                [st |-> "pending", value |-> NoBody, at |-> 0]]
             /\ viewport' = view
        ELSE /\ Becomes(Proceed(req, style, view, result, lg \o <<"viewport">>, net))
             /\ UNCHANGED importSt
             /\ viewport' = view

\* renderImage: the parameter checks, then render up to its first await
RenderImage ==
    /\ pc = "start"
    /\ req.via = "server"
    /\ \E fit \in Fits(req) :
        IF ValidateRequest(req) # "ok"
        THEN /\ Becomes(Throw(Err("validate", ValidateRequest(req))))
             /\ UNCHANGED <<importSt, viewport>>
        ELSE RenderStarts(fit, <<"validate">>)
    /\ UNCHANGED <<req, style0, served>>
    /\ UNCHANGED fvars

\* a caller of the second render module (its default export) calls render
\* with decoded arguments: render up to its first await
RenderCopy ==
    /\ pc = "start"
    /\ req.via = "copy"
    /\ \E fit \in Fits(req) : RenderStarts(fit, <<>>)
    /\ UNCHANGED <<req, style0, served>>
    /\ UNCHANGED fvars

\* the imported styles taken in the order in which their fetches settled
ImportedStylesAsSettled(st) ==
    [j \in 1..Len(st) |-> st[CHOOSE k \in 1..Len(st) : st[k].at = j].value]

\* the array that await Promise.all(imports.map(...)) gives: the styles in
\* the order of imports, whatever the order in which the fetches settled
ImportedStyles(st) == [j \in 1..Len(st) |-> st[j].value]

\* the fetch of import i settles, and with it getRemoteStyleImport; when it
\* was the last one, render merges (lines 637-682) and goes on.  at is the
\* rank of the import among the settled ones
ImportSettles(i) ==
    /\ i \in 1..Len(importSt)
    /\ importSt[i].st = "pending"
    /\ LET r == getRemoteStyleImport(served[i])
           st1 == [importSt EXCEPT ![i] =
                      [st |-> IF r.ok THEN "resolved" ELSE "rejected",
                       value |-> r.value,
                       at |-> 1 + Cardinality({k \in 1..Len(importSt) :
                                                  importSt[k].st # "pending"})]]
       IN /\ importSt' = st1
          /\ IF pc # "awaitImports" THEN Becomes(Stay)
             ELSE IF ~r.ok THEN Becomes(Throw(Err("import", "import")))
             ELSE IF \E j \in 1..Len(st1) : st1[j].st # "resolved" THEN Becomes(Stay)
             ELSE LET m == MergeImports(style, ImportIds(req), ImportedStyles(st1))
                  IN IF ~m.ok
                     THEN Becomes([Throw(Err("merge", "TypeError")) EXCEPT
                                      !.style = m.style])
                     ELSE Becomes(Proceed(req, m.style, viewport, result,
                                          log \o <<"merge">>, net))
    /\ UNCHANGED <<req, style0, served, viewport>>
    /\ UNCHANGED fvars

\* a barrier that opens with the first image loaded
IconsLoadedAny(st) == \E k \in 1..Len(st) : st[k].st = "loaded"

\* await Promise.all(imageRequests) of loadImages resolves: every image is
\* loaded
IconsLoaded(st) == \A k \in 1..Len(st) : st[k].st = "loaded"

\* the load of image j settles; when it was the last one, render calls the
\* renderer
ImageSettles(j) ==
    /\ j \in 1..Len(imageSt)
    /\ imageSt[j].st = "pending"
    /\ \E resp \in ByteResponses \cup Failures, decodes \in BOOLEAN, registers \in BOOLEAN :
        LET ok == IF req.via = "copy"
                  THEN loadImageCopy(ImageUrl(req, j), resp, decodes, registers)
                  ELSE loadImage(ImageUrl(req, j), resp, decodes, registers)
            st1 == [imageSt EXCEPT ![j] =
                       [st |-> IF ok THEN "loaded" ELSE "failed",
                        resp |-> IF ImageIsFetched(ImageUrl(req, j)) THEN resp ELSE NoBody,
                        decodes |-> decodes, registers |-> registers]]
            m1 == IF ok THEN [map EXCEPT !.images = @ \cup {j}] ELSE map
        IN  IF pc # "awaitImages"
            THEN Becomes([Stay EXCEPT !.imageSt = st1, !.map = m1])
            ELSE IF ~ok
            THEN Becomes([Throw(Err("icons", "load")) EXCEPT !.imageSt = st1])
            ELSE IF ~IconsLoaded(st1)
            THEN Becomes([Stay EXCEPT !.imageSt = st1, !.map = m1])
            ELSE Becomes([Stay EXCEPT !.imageSt = st1, !.pc = "awaitRender",
                                      !.map = CallRender(m1, viewport),
                                      !.log = log \o <<"render">>])
    /\ UNCHANGED <<req, style0, served, importSt, viewport>>
    /\ UNCHANGED fvars

\* buffer[i] /= norm with norm = alpha / 255, for alpha > 0: the quotient of
\* the two doubles, truncated and reduced modulo 256 by the store into the
\* Uint8Array.  For the pairs (c, alpha) listed the double c / (alpha / 255)
\* lies just below the integer 255 * c / alpha, and the store keeps one
\* less (of the bytes of RenderedBuffers these are the only such pairs).
Unpremultiply(c, alpha) ==
    LET roundsBelow == {<<11, 33>>, <<22, 33>>, <<33, 33>>}
        exact == (255 * c) \div alpha
    IN  (IF <<c, alpha>> \in roundsBelow THEN exact - 1 ELSE exact) % 256

\* the loop of toPNG over the pixels of the buffer: the bytes it leaves
toPNG(buffer) ==
    [i \in 1..Len(buffer) |->
        LET alpha == buffer[4 * ((i - 1) \div 4) + 4]
        IN  IF i % 4 = 0 THEN buffer[i]
            ELSE IF alpha = 0 THEN 0
            ELSE Unpremultiply(buffer[i], alpha)]

\* buffers of premultiplied RGBA bytes that map.render can give, of one and
\* of two pixels
RenderedBuffers ==
    {<<0, 0, 0, 0>>, <<9, 9, 9, 0>>, <<10, 20, 30, 255>>, <<11, 22, 33, 33>>,
     <<64, 32, 0, 128>>, <<200, 0, 0, 100>>,
     <<11, 22, 33, 33, 0, 0, 0, 0>>, <<10, 20, 30, 255, 64, 32, 0, 128>>}

\* map.release()
Release(m) == [m EXCEPT !.released = @ + 1]

\* the renderer invokes the callback of map.render: with an error, with a
\* buffer, or with neither.  With a buffer, render.ts runs the loop of toPNG
\* over it before it hands it to sharp; the second render module hands it
\* to sharp as it is
RenderCallback ==
    /\ pc = "awaitRender"
    /\ \E outcome \in {"error", "buffer", "nobuffer"}, buffer \in RenderedBuffers :
        LET m1 == IF outcome = "buffer"
                  THEN [map EXCEPT !.outcome = outcome, !.rendered = buffer,
                                   !.buffer = IF req.via = "copy" THEN buffer
                                              ELSE toPNG(buffer)]
                  ELSE [map EXCEPT !.outcome = outcome]
        IN  IF outcome = "error"
            THEN Becomes([Throw(Err("render", "render")) EXCEPT !.map = m1])
            ELSE IF outcome = "nobuffer"
            THEN Becomes([Throw(Err("png", "TypeError")) EXCEPT
                             !.map = Release(m1), !.log = log \o <<"release">>])
            ELSE Becomes([Stay EXCEPT !.pc = "awaitPNG", !.map = Release(m1),
                                      !.log = log \o <<"release", "png">>])
    /\ UNCHANGED <<req, style0, served, importSt, viewport>>
    /\ UNCHANGED fvars

\* While the style loads and while the map renders, the renderer requests
\* a resource of the style (a source, a tile, glyphs, a sprite).  A map
\* made with a request option hands the request to that function; a map
\* made without one loads the resource with its own loader.
RendererRequests ==
    /\ pc \in {"awaitImages", "awaitRender"}
    /\ map.created
    /\ map.issued < MaxResources
    /\ Becomes([Stay EXCEPT !.map = [map EXCEPT
            !.issued = @ + 1,
            !.delivered = IF "request" \in map.options THEN @ + 1 ELSE @]])
    /\ UNCHANGED <<req, style0, served, importSt, viewport>>
    /\ UNCHANGED fvars

\* sharp(...).png().toBuffer() settles
PngSettles ==
    /\ pc = "awaitPNG"
    /\ \E encoded \in BOOLEAN :
        IF encoded
        THEN Becomes([Stay EXCEPT !.pc = "done", !.result = Sent(result)])
        ELSE Becomes(Throw(Err("png", "encode")))
    /\ UNCHANGED <<req, style0, served, importSt, viewport>>
    /\ UNCHANGED fvars

\* ------------------------------------------------ resource requests
NoRequest == [url |-> <<>>, kind |-> 0, fetcher |-> "none", throws |-> FALSE,
              resp |-> [fail |-> "none", status |-> 0, body |-> NoBody]]
NoJson == [json |-> [ok |-> FALSE, value |-> NoBody],
           import |-> [ok |-> FALSE, value |-> NoBody]]

\* the renderer's resource kinds (0 unknown, 1 style, 2 source, 3 tile,
\* 4 glyphs, 5 sprite image, 6 sprite JSON, 7 image source) and one beyond
Kinds == 0..8

ResourceUrls == {Text.http_a, Text.mapbox_tiles, Text.mapbox_style_url}

\* requestHandler({url, kind}, callback), up to the fetch it issues
RequestHandler(url, kind, throws) ==
    /\ fpc = "idle"
    /\ rq' = [NoRequest EXCEPT !.url = url, !.kind = kind,
                               !.fetcher = Route(url, kind), !.throws = throws]
    /\ IF Route(url, kind) \in {"reject", "unhandled"}
       THEN /\ calls' = <<CbError>>
            /\ fpc' = "done"
            /\ net' = net
       ELSE /\ calls' = calls
            /\ fpc' = "fetching"
            /\ net' = Append(net, url)
    /\ UNCHANGED jsonRes
    /\ UNCHANGED pvars

\* the fetch of getRemoteTile or getRemoteAsset settles
FetchSettles(resp) ==
    /\ fpc = "fetching"
    /\ rq' = [rq EXCEPT !.resp = resp]
    /\ calls' = Deliver(IF rq.fetcher = "tile" THEN getRemoteTile(resp)
                        ELSE getRemoteAsset(resp), rq.throws)
    /\ fpc' = "done"
    /\ UNCHANGED <<net, jsonRes>>
    /\ UNCHANGED pvars

\* a timer that ends the tile fetch as a missing tile ends it
TileTimeoutAsMissing ==
    /\ fpc = "fetching"
    /\ rq.fetcher = "tile"
    /\ rq' = [rq EXCEPT !.resp = [fail |-> "aborted", status |-> 0, body |-> NoBody]]
    /\ calls' = Deliver("null", rq.throws)
    /\ fpc' = "done"
    /\ UNCHANGED <<net, jsonRes>>
    /\ UNCHANGED pvars

\* signal: AbortSignal.timeout(15000) of getRemoteTile: the timer fires
\* while the fetch is pending, fetch rejects, and .catch hands the error to
\* the callback
TileTimeout ==
    /\ fpc = "fetching"
    /\ rq.fetcher = "tile"
    /\ rq' = [rq EXCEPT !.resp = [fail |-> "aborted", status |-> 0, body |-> NoBody]]
    /\ calls' = Deliver("error", rq.throws)
    /\ fpc' = "done"
    /\ UNCHANGED <<net, jsonRes>>
    /\ UNCHANGED pvars

\* getRemoteStyleImport(url, token), up to the fetch of getRemoteJSON
ImportFetchStarts(url, token) ==
    /\ fpc = "idle"
    /\ rq' = [NoRequest EXCEPT !.url = url, !.fetcher = "json"]
    /\ net' = Append(net, ImportStyleUrl(url, token))
    /\ fpc' = "json"
    /\ UNCHANGED <<calls, jsonRes>>
    /\ UNCHANGED pvars

\* the fetch of getRemoteJSON settles, and getRemoteStyleImport after it
JsonSettles(resp) ==
    /\ fpc = "json"
    /\ rq' = [rq EXCEPT !.resp = resp]
    /\ jsonRes' = [json |-> getRemoteJSON(resp), import |-> getRemoteStyleImport(resp)]
    /\ fpc' = "done"
    /\ UNCHANGED <<net, calls>>
    /\ UNCHANGED pvars

\* --------------------------------------------------- styles and bodies
Source(url) == Obj(<<[k |-> K.url, v |-> Str(url)]>>)
Layer(id, source) == [id |-> id, source |-> source]

BaseStyle(sources, layers, fog, glyphs, sprite) ==
    [version |-> Num(8), sources |-> sources, layers |-> layers,
     fog |-> fog, glyphs |-> glyphs, sprite |-> sprite]

\* a parsed JSON object: hasVersion is 'version' in it, hasSources and
\* hasLayers are whether the properties are defined
Body(version, sources, layers, fog, glyphs, sprite) ==
    [t |-> "object", hasVersion |-> version.t # "undefined", version |-> version,
     hasSources |-> TRUE, sources |-> sources, hasLayers |-> TRUE, layers |-> layers,
     fog |-> fog, glyphs |-> glyphs, sprite |-> sprite]

BodyNull == [t |-> "null"]
\* an array: typeof is 'object' and it has no 'version'
BodyArray == [t |-> "object", hasVersion |-> FALSE]

StylePlain ==
    BaseStyle(<<[k |-> Text.own, v |-> Source(Text.http_a)]>>,
              <<Layer(Text.own, Str(Text.own))>>, Undefined, Undefined, Undefined)
StyleMbtiles ==
    BaseStyle(<<[k |-> Text.own, v |-> Source(Text.mbtiles_foo_123)]>>,
              <<Layer(Text.own, Str(Text.own))>>, Undefined, Str(Text.http_c), Undefined)

BodyPlain ==
    Body(Num(8), <<[k |-> s_composite, v |-> Source(Text.http_b)]>>,
         <<Layer(Text.roads, Str(s_composite))>>, Undefined, Str(Text.http_b), Undefined)
BodyMbtiles ==
    Body(Num(8), <<[k |-> Text.roads, v |-> Source(Text.MBTiles_foo)]>>,
         <<Layer(Text.roads, Str(Text.roads))>>, Undefined, Undefined, Undefined)
BodyMbtilesGlyphs ==
    Body(Num(8), <<>>, <<>>, Undefined, Str(Text.mbtiles_foo), Undefined)
BodyVersion7 == [BodyPlain EXCEPT !.version = Num(7)]
BodyVersionText == [BodyPlain EXCEPT !.version = Str(<<"8">>)]
BodyNoVersion == [BodyPlain EXCEPT !.hasVersion = FALSE, !.version = Undefined]
BodyNoLayers == [BodyPlain EXCEPT !.hasLayers = FALSE]
BodyNoSources == [BodyPlain EXCEPT !.hasSources = FALSE]

Response(status, body) == [fail |-> "none", status |-> status, body |-> body]

\* what the server of an import of the pipeline specification may answer
ImportResponses ==
    {Response(200, BodyPlain), Response(200, BodyMbtiles),
     Response(200, BodyMbtilesGlyphs), Response(200, BodyVersion7),
     Response(200, BodyVersionText), Response(200, BodyNull),
     Response(404, BodyPlain), Response(200, BodyNoLayers)}

\* what the server of a JSON fetch may answer
JsonResponses ==
    {Response(s, b) : s \in Statuses,
                      b \in {BodyPlain, BodyVersion7, BodyVersionText, BodyNoVersion,
                             BodyNull, [t |-> "zero"], [t |-> "string"], BodyArray,
                             [t |-> "invalid"]}}
    \cup Failures

\* ------------------------------------------------------------ requests

\* the parameters other than the imports, the images and the tile path
Geometry(center, zoom, bounds, width) ==
    [center |-> center, zoom |-> zoom, bounds |-> bounds, padding |-> Num(0),
     width |-> width, height |-> Num(260), ratio |-> Num(1), bearing |-> Null,
     pitch |-> Null, token |-> Str(Text.tok)]

Geometries ==
    {Geometry(Arr(<<Num(7), Num(45)>>), Num(5), Null, Num(400)),
     Geometry(Null, Null, Arr(<<Num(7), Num(44), Num(8), Num(46)>>), Num(400)),
     Geometry(Null, Null, Null, Num(400)),
     Geometry(Arr(<<Num(7), Num(45)>>), Num(23), Null, Num(400)),
     Geometry(Arr(<<Num(7), Num(45)>>), Num(5), Null, Undefined)}

\* the i-th import of a request of the pipeline specification
ImportRef(i) ==
    IF i = 1 THEN [id |-> Text.basemap, url |-> Text.mapbox_style_url]
    ELSE IF i = 2 THEN [id |-> Text.ov, url |-> Text.http_b]
    ELSE [id |-> <<"x">> \o NumStr(i), url |-> Text.http_c]

Image(url) == Obj(<<[k |-> K.url, v |-> Str(url)]>>)

ImageMaps ==
    {Null, Obj(<<[k |-> <<"p","i","n">>, v |-> Image(Text.http_c)],
                 [k |-> <<"d","o","t">>, v |-> Image(Text.data_png)]>>)}

Request(g, imports, images, tilePath) ==
    [center |-> g.center, zoom |-> g.zoom, bounds |-> g.bounds, padding |-> g.padding,
     width |-> g.width, height |-> g.height, ratio |-> g.ratio, bearing |-> g.bearing,
     pitch |-> g.pitch, token |-> g.token, imports |-> imports, images |-> images,
     tilePath |-> tilePath, via |-> "server"]

ImportList(n) == IF n = 0 THEN Null ELSE Arr([i \in 1..n |-> ImportRef(i)])

\* no resource request is in progress
FetchIdle ==
    /\ fpc = "idle"
    /\ rq = NoRequest
    /\ calls = <<>>
    /\ jsonRes = NoJson

\* a render request arrives
RequestArrives ==
    /\ pc = "start"
    /\ style = style0
    /\ importSt = <<>>
    /\ imageSt = <<>>
    /\ map = NoMap
    /\ result = NoResult
    /\ viewport = NoViewport
    /\ log = <<>>
    /\ net = <<>>
    /\ lastIndex = 0
    /\ other = <<>>

Init ==
    /\ \E n \in 0..MaxImports :
        /\ req \in {Request(g, ImportList(n), images, tilePath) :
                      g \in Geometries, images \in ImageMaps,
                      tilePath \in {Null, Str(<<"/","t","i","l","e","s">>)}}
        /\ served \in [1..n -> ImportResponses]
    /\ style0 \in {StylePlain, StyleMbtiles}
    /\ RequestArrives
    /\ FetchIdle

Next ==
    \/ RenderImage
    \/ \E i \in 1..Len(importSt) : ImportSettles(i)
    \/ \E j \in 1..Len(imageSt) : ImageSettles(j)
    \/ RenderCallback
    \/ RendererRequests
    \/ PngSettles

Spec == Init /\ [][Next]_vars

\* ------------------------------------------- the fetch specification
\* no render request is in progress
NoRender ==
    /\ pc = "none"
    /\ req = Request(Geometry(Null, Null, Null, Undefined), Null, Null, Null)
    /\ style0 = StylePlain
    /\ style = StylePlain
    /\ served = <<>>
    /\ importSt = <<>>
    /\ imageSt = <<>>
    /\ map = NoMap
    /\ result = NoResult
    /\ viewport = NoViewport
    /\ log = <<>>
    /\ net = <<>>
    /\ lastIndex = 0
    /\ other = <<>>

InitFetch == NoRender /\ FetchIdle


NextFetch ==
    \/ \E url \in ResourceUrls, kind \in Kinds, throws \in BOOLEAN :
          RequestHandler(url, kind, throws)
    \/ \E resp \in ByteResponses \cup Failures : FetchSettles(resp)
    \/ TileTimeout
    \/ \E url \in {Text.http_a, Text.mapbox_style_url, Text.mapbox_stylesheet},
          token \in {Null, Str(Text.tok)} : ImportFetchStarts(url, token)
    \/ \E resp \in JsonResponses : JsonSettles(resp)

SpecFetch == InitFetch /\ [][NextFetch]_vars

\* the same with the timer of the tile fetch, which fires when its time
\* has come; a server need not ever answer
SpecFetchTimer == SpecFetch /\ WF_vars(TileTimeout)

\* ------------------------------------------- the merge specification
\* Requests whose imports all resolve, over base styles and imported styles
\* that share keys, leave fog, glyphs and sprite unset, set them to a falsy
\* value or set them to a value of another type.
Fog(color) == Obj(<<[k |-> K.color, v |-> Str(color)]>>)

MergeStyles ==
    {BaseStyle(<<[k |-> Text.own, v |-> Source(Text.http_a)]>>,
               <<Layer(Text.own, Str(Text.own))>>, Undefined, Undefined, Undefined),
     BaseStyle(<<[k |-> Text.own, v |-> Source(Text.http_a)],
                 [k |-> Text.basemap, v |-> Source(Text.http_a)]>>,
               <<Layer(Text.own, Str(Text.own)), Layer(Text.basemap, Str(Text.basemap))>>,
               Fog(Text.http_c), Str(Text.http_a), Str(Text.http_a)),
     BaseStyle(<<[k |-> Text.basemap_roads, v |-> Source(Text.http_a)]>>,
               <<Layer(Text.own, Undefined)>>, Null, Str(<<>>), Undefined)}

MergeBodies ==
    {Body(Num(8), <<[k |-> s_composite, v |-> Source(Text.http_b)]>>,
          <<Layer(Text.roads, Str(s_composite))>>, Fog(Text.http_a), Str(Text.http_b), Undefined),
     Body(Num(8), <<[k |-> Text.roads, v |-> Source(Text.http_c)]>>,
          <<Layer(<<"l","2">>, Str(Text.roads)), Layer(<<"l","3">>, Undefined)>>,
          Null, Str(<<>>), Str(Text.http_c)),
     Body(Num(8), <<[k |-> s_composite, v |-> Source(Text.http_c)],
                    [k |-> Text.roads, v |-> Source(Text.http_b)]>>,
          <<Layer(<<"l","4">>, Str(<<>>))>>, Str(Text.http_a), Num(5), Str(<<>>)),
     Body(Num(8), <<>>, <<>>, Fog(Text.http_b), Str(Text.http_c), Str(Text.http_b)),
     BodyNoLayers, BodyNoSources}




InitMerge ==
    /\ \E n \in 0..MaxMergeImports :
        /\ \E ids \in [1..n -> {Text.basemap, Text.ov}] :
              req = Request(Geometry(Arr(<<Num(7), Num(45)>>), Num(5), Null, Num(400)),
                            IF n = 0 THEN Null
                            ELSE Arr([i \in 1..n |-> [id |-> ids[i], url |-> Text.http_b]]),
                            Obj(<<[k |-> <<"d","o","t">>, v |-> Image(Text.data_png)]>>), Null)
        /\ served \in [1..n -> {Response(200, b) : b \in MergeBodies}]
    /\ style0 \in MergeStyles
    /\ RequestArrives
    /\ FetchIdle

SpecMerge == InitMerge /\ [][Next]_vars

\* ------------------------------------- the second render module
\* Calls of the render of the second render module (src/unnamed/part_000,
\* from line 362), by a caller that passes decoded arguments.
InitCopy ==
    /\ \E n \in 0..MaxImports :
        /\ req \in {[Request(g, ImportList(n), images, Null) EXCEPT !.via = "copy"] :
                      g \in Geometries, images \in ImageMaps}
        /\ served \in [1..n -> ImportResponses]
    /\ style0 \in {StylePlain, StyleMbtiles}
    /\ RequestArrives
    /\ FetchIdle

NextCopy ==
    \/ RenderCopy
    \/ \E i \in 1..Len(importSt) : ImportSettles(i)
    \/ \E j \in 1..Len(imageSt) : ImageSettles(j)
    \/ RenderCallback
    \/ RendererRequests
    \/ PngSettles

SpecCopy == InitCopy /\ [][NextCopy]_vars

\* ------------------------------------- the parameters specification
\* Requests of the server that differ in one family of parameters at a
\* time: the center and the zoom; the bounds, the padding and the size;
\* the imports.  181 and 91 stand for the values beyond the limits.
ParamRequests ==
    LET centers ==
            {Null, Arr(<<Num(7)>>)}
              \cup {Arr(<<lon, lat>>) :
                      lon \in {Num(0 - 181), Num(0 - 180), Num(7), Num(180), Num(181), Nan},
                      lat \in {Num(0 - 91), Num(0 - 90), Num(45), Num(90), Num(91), Nan}}
        boxes ==
            {Null,
             Arr(<<Num(10), Num(10), Num(20), Num(20)>>),
             Arr(<<Num(10), Num(10), Num(10), Num(20)>>),
             Arr(<<Num(10), Num(10), Num(20), Num(10)>>),
             Arr(<<Num(20), Num(20), Num(10), Num(10)>>),
             Arr(<<Num(10), Nan, Num(20), Num(20)>>),
             Arr(<<Num(10), Num(10), Num(20)>>)}
        paddings == {Num(0), Num(129), Num(130), Num(199), Num(200), Num(0 - 130)}
        importLists ==
            {Null, Str(Text.http_b), Obj(<<>>), ImportList(1),
             Arr(<<[id |-> <<>>, url |-> Text.http_b]>>),
             Arr(<<[id |-> Text.ov, url |-> <<>>]>>),
             Arr(<<[id |-> Text.ov, url |-> Text.roads]>>),
             Arr(<<[id |-> Text.ov, url |-> s_mapbox_styles]>>),
             Arr(<<ImportRef(2), [id |-> Text.own, url |-> Text.roads]>>)}
    IN  {Request(Geometry(center, zoom, bounds, Num(400)), Null, Null, Null) :
            center \in centers, zoom \in {Null, Num(0), Num(5)},
            bounds \in {Null, Arr(<<Num(10), Num(10), Num(20), Num(20)>>)}}
          \cup
        {Request([Geometry(center, zoom, bounds, size[1]) EXCEPT
                     !.padding = padding, !.height = size[2]], Null, Null, Null) :
            center \in {Null, Arr(<<Num(7), Num(45)>>)}, zoom \in {Null, Num(5)},
            bounds \in boxes, padding \in paddings,
            size \in {<<Num(400), Num(260)>>, <<Num(260), Num(400)>>,
                      <<Num(0 - 400), Num(260)>>, <<Num(400), Num(0 - 260)>>}}
          \cup
        {Request(Geometry(Arr(<<Num(7), Num(45)>>), Num(5), Null, Num(400)),
                 imports, images, Null) :
            imports \in importLists, images \in ImageMaps}
          \cup
        \* requests that break several rules at once
        {Request([Geometry(center, zoom, bounds, Num(400)) EXCEPT
                     !.padding = padding, !.ratio = ratio,
                     !.bearing = turn[1], !.pitch = turn[2]],
                 imports, images, Null) :
            center \in {Null, Arr(<<Num(7), Num(45)>>), Arr(<<Num(181), Num(45)>>)},
            zoom \in {Null, Num(5), Num(23)},
            bounds \in {Null, Arr(<<Num(10), Num(10), Num(20), Num(20)>>),
                        Arr(<<Num(10), Num(10), Num(10), Num(20)>>)},
            padding \in {Num(0), Num(200)}, ratio \in {Num(1), Num(0)},
            turn \in {<<Null, Null>>, <<Num(361), Null>>, <<Null, Num(61)>>,
                      <<Num(361), Num(61)>>},
            images \in {Null, Obj(<<[k |-> <<"p","i","n">>, v |-> Null]>>)},
            imports \in {Null, Arr(<<[id |-> <<>>, url |-> Text.http_b]>>)}}

InitParams ==
    /\ req \in ParamRequests
    /\ served = [i \in 1..ImportCount(req) |-> Response(200, BodyPlain)]
    /\ style0 = StylePlain
    /\ RequestArrives
    /\ FetchIdle

SpecParams == InitParams /\ [][Next]_vars

\* ------------------------------------- two requests at a time
\* The server takes a second request while the first waits at an await.
\* The values of the request that runs
Context ==
    [pc |-> pc, req |-> req, style0 |-> style0, style |-> style, served |-> served,
     importSt |-> importSt, imageSt |-> imageSt, map |-> map, result |-> result,
     viewport |-> viewport, log |-> log, net |-> net]

\* the request c is the one that runs
Resume(c) ==
    /\ pc' = c.pc
    /\ req' = c.req
    /\ style0' = c.style0
    /\ style' = c.style
    /\ served' = c.served
    /\ importSt' = c.importSt
    /\ imageSt' = c.imageSt
    /\ map' = c.map
    /\ result' = c.result
    /\ viewport' = c.viewport
    /\ log' = c.log
    /\ net' = c.net

\* the change of the running request for two requests that were handed
\* one and the same style object
SwitchSharingStyle ==
    /\ Len(other) = 1
    /\ Resume([other[1] EXCEPT !.style = style])
    /\ other' = <<Context>>
    /\ UNCHANGED <<fpc, rq, calls, jsonRes, lastIndex>>

\* the event loop goes on with the other request: the request that ran
\* waits at its await with its own values, and the state of the module
\* stays
Switch ==
    /\ Len(other) = 1
    /\ Resume(other[1])
    /\ other' = <<Context>>
    /\ UNCHANGED <<fpc, rq, calls, jsonRes, lastIndex>>

\* requests of the server, each with its own style document and with the
\* answer of the server of its import
Arrivals ==
    {[req |-> Request(Geometry(Arr(<<Num(7), Num(45)>>), Num(5), Null, Num(400)),
                      ImportList(1),
                      Obj(<<[k |-> <<"d","o","t">>, v |-> Image(Text.data_png)]>>), Null),
      style0 |-> StylePlain, served |-> <<Response(200, BodyPlain)>>],
     [req |-> Request(Geometry(Null, Null,
                               Arr(<<Num(10), Num(10), Num(20), Num(20)>>), Num(400)),
                      Arr(<<ImportRef(2)>>), Null, Null),
      style0 |-> BaseStyle(<<[k |-> Text.ov, v |-> Source(Text.http_c)]>>,
                           <<Layer(Text.ov, Str(Text.ov))>>,
                           Undefined, Undefined, Undefined),
      served |-> <<Response(200, BodyPlain)>>],
     [req |-> Request(Geometry(Arr(<<Num(7), Num(45)>>), Num(5), Null, Num(400)),
                      Arr(<<ImportRef(2)>>), Null, Null),
      style0 |-> StylePlain, served |-> <<Response(404, BodyPlain)>>]}

InitPair ==
    /\ \E a \in Arrivals : \E b \in Arrivals \ {a} :
        /\ req = a.req
        /\ style0 = a.style0
        /\ served = a.served
        /\ other = <<[pc |-> "start", req |-> b.req, style0 |-> b.style0,
                      style |-> b.style0, served |-> b.served, importSt |-> <<>>,
                      imageSt |-> <<>>, map |-> NoMap, result |-> NoResult,
                      viewport |-> NoViewport, log |-> <<>>, net |-> <<>>]>>
    /\ pc = "start"
    /\ style = style0
    /\ importSt = <<>>
    /\ imageSt = <<>>
    /\ map = NoMap
    /\ result = NoResult
    /\ viewport = NoViewport
    /\ log = <<>>
    /\ net = <<>>
    /\ lastIndex = 0
    /\ FetchIdle

NextPair ==
    \/ Next
    \/ Switch

SpecPair == InitPair /\ [][NextPair]_vars

\* ===================================================== the properties
\* ------------------------------------------------ resource fetch status
\* the resource request went to fetcher f and its fetch got a response
Answered(f) == fpc = "done" /\ rq.fetcher = f /\ rq.resp.fail = "none"

\* C1: a tile fetch answered with status 204 or 404 hands the callback no
\* error and null data; answered with any other status outside 200..299 it
\* hands the callback an error and no data.
C1_TileStatus ==
    Answered("tile") =>
        /\ rq.resp.status \in {204, 404} => calls[1] = [err |-> FALSE, data |-> "null"]
        /\ (rq.resp.status \notin {204, 404} /\ ~(rq.resp.status \in 200..299)) =>
              calls = <<[err |-> TRUE, data |-> "none"]>>

\* a tile fetch was answered 404 and the callback got null data, no error
C1_Witness ==
    /\ Answered("tile")
    /\ rq.resp.status = 404
    /\ calls = <<[err |-> FALSE, data |-> "null"]>>

\* a tile fetch was answered 500 and the callback got an error
C1_WitnessError ==
    /\ Answered("tile")
    /\ rq.resp.status = 500
    /\ calls = <<[err |-> TRUE, data |-> "none"]>>

BadImport(resp) ==
    \/ resp.fail # "none"
    \/ ~(resp.status \in 200..299)
    \/ resp.body.t # "object"
    \/ ~resp.body.hasVersion
    \/ resp.body.version # [t |-> "number", n |-> 8]

\* the stage s is in the log
Ran(s) == \E p \in 1..Len(log) : log[p] = s

\* render is past the merge of the imports (there were none, or all were
\* merged)
MergeDone ==
    /\ pc \notin {"none", "start"}
    /\ result.error.stage \notin {"validate", "arguments"}
    /\ ImportCount(req) = 0 \/ Ran("merge")

\* C3: when render has settled for a request whose renderer instance was
\* created and whose render call was answered, with a buffer or with an
\* error, release() was called on the instance exactly once.
C3_ReleasedOnce ==
    (pc = "done" /\ map.created /\ map.outcome # "none") => map.released = 1

\* C4: a request ends in exactly one outcome, PNG bytes or an error, never
\* both and never more than one; PNG bytes are sent only when the checks of
\* the parameters passed, every import resolved with a valid style, the
\* merged style has no mbtiles match, every icon was loaded and the render
\* call gave a buffer.
C4_OneOutcome ==
    /\ result.png + result.errors <= 1
    /\ pc = "done" <=> result.png + result.errors = 1
    /\ result.errors = 0 <=> result.error = NoError
    /\ result.png = 1 =>
          /\ ValidateRequest(req) = "ok"
          /\ RenderChecks(req) = "ok"
          /\ Len(importSt) = ImportCount(req)
          /\ \A i \in 1..ImportCount(req) :
                importSt[i].st = "resolved" /\ ~BadImport(served[i])
          /\ ImportCount(req) > 0 => Ran("merge")
          /\ ~MBTILES_REGEXP(StringifyStyle(style))
          /\ Len(imageSt) = ImageCount(req)
          /\ \A j \in 1..ImageCount(req) : imageSt[j].st = "loaded" /\ j \in map.images
          /\ map.created /\ map.renders = 1 /\ map.outcome = "buffer"

\* a request with imports and icons ended with PNG bytes
C4_Witness ==
    /\ pc = "done"
    /\ result.png = 1
    /\ ImportCount(req) > 0
    /\ ImageCount(req) > 0

\* a request ended with an error after its renderer instance was created
C4_WitnessError ==
    /\ pc = "done"
    /\ result.errors = 1
    /\ map.created

\* the strings a style holds: its source keys and URLs, its layers' ids and
\* sources, its fog colour, its glyphs and its sprite
StyleStrings(st) ==
    {st.sources[p].k : p \in 1..Len(st.sources)}
    \cup {ObjGet(st.sources[p].v.o, K.url).s : p \in 1..Len(st.sources)}
    \cup {st.layers[p].id : p \in 1..Len(st.layers)}
    \cup {st.layers[p].source.s :
             p \in {r \in 1..Len(st.layers) : st.layers[r].source.t = "string"}}
    \cup {v.s : v \in {w \in {st.glyphs, st.sprite} : w.t = "string"}}
    \cup {ObjGet(v.o, K.color).s : v \in {w \in {st.fog} : w.t = "object"}}

\* s is an mbtiles:// reference: the scheme, in any case, and a name with no
\* whitespace after it
IsMbtilesReference(s) ==
    /\ Len(s) > 10
    /\ <<ToLower(s[1]), ToLower(s[2]), ToLower(s[3]), ToLower(s[4]), ToLower(s[5]),
         ToLower(s[6]), ToLower(s[7]), s[8], s[9], s[10]>>
          = <<"m","b","t","i","l","e","s",":","/","/">>
    /\ \A j \in 11..Len(s) : s[j] # " "

HasMbtilesReference(st) == \E s \in StyleStrings(st) : IsMbtilesReference(s)

C5_WitnessBase ==
    /\ MergeDone
    /\ req.tilePath.t = "null"
    /\ HasMbtilesReference(style0)
    /\ result.error = [stage |-> "mbtiles", rule |-> "mbtiles"]

\* C10: a request one of whose imports is answered with a status outside
\* 200..299, with a payload that is no JSON object, or with a version that
\* is not the number 8, never gets a renderer instance nor PNG bytes, and
\* once such an answer has arrived render has failed with the import error.
C10_ImportError ==
    /\ (\E i \in 1..ImportCount(req) : BadImport(served[i])) =>
          ~map.created /\ result.png = 0 /\ ~Ran("merge")
    /\ \A i \in 1..Len(importSt) :
          (importSt[i].st # "pending" /\ BadImport(served[i])) =>
              /\ pc = "done"
              /\ result.errors = 1
              /\ result.error = [stage |-> "import", rule |-> "import"]

\* render failed on an import whose payload has the version "8", a text
C10_Witness ==
    \E i \in 1..Len(importSt) :
        /\ importSt[i].st = "rejected"
        /\ served[i].status = 200
        /\ served[i].body.t = "object"
        /\ served[i].body.version = [t |-> "string", s |-> <<"8">>]
        /\ result.error = [stage |-> "import", rule |-> "import"]

\* render failed on an import answered 404, after another had resolved
C10_WitnessStatus ==
    \E i, j \in 1..Len(importSt) :
        /\ importSt[i].st = "rejected"
        /\ served[i].status = 404
        /\ importSt[j].st = "resolved"
        /\ result.error = [stage |-> "import", rule |-> "import"]

\* ------------------------------------------------------------ the merge
\* the id and the served style of the i-th import of the request
IdOf(i) == req.imports.a[i].id
StyleOf(i) == served[i].body

\* the key a source k of the import with id i is to be found under
KeyFor(i, k) == IF k = <<"c","o","m","p","o","s","i","t","e">> THEN i ELSE i \o <<"-">> \o k

LayerIds(layers) == [p \in 1..Len(layers) |-> layers[p].id]

RECURSIVE ImportedLayerIds(_)
\* the ids of layers(Ii), layers(Ii+1), ..., layers(In)
ImportedLayerIds(i) ==
    IF i > ImportCount(req) THEN <<>>
    ELSE LayerIds(StyleOf(i).layers) \o ImportedLayerIds(i + 1)

\* C6: after the merge, every key of the base style's source map that is
\* the renamed key of an imported source still holds the base style's entry.
C6_BaseSourceKept ==
    Ran("merge") =>
        \A i \in 1..ImportCount(req) : \A p \in 1..Len(StyleOf(i).sources) :
            LET rk == KeyFor(IdOf(i), StyleOf(i).sources[p].k)
            IN  ObjHas(style0.sources, rk) =>
                    /\ ObjHas(style.sources, rk)
                    /\ ObjGet(style.sources, rk) = ObjGet(style0.sources, rk)

\* C7: after the merge of the imports I1..In, the layers are those of I1,
\* then those of I2, ..., then those of In, then the base style's own, each
\* block in its order.
C7_ImportOrder ==
    Ran("merge") =>
        LayerIds(style.layers) = ImportedLayerIds(1) \o LayerIds(style0.layers)

\* C8: after the merge, every source k of an import with id i is found
\* under i when k is 'composite' and under i-k otherwise, with the value an
\* import gave for that key, and no other key was added; every imported
\* layer is present with its source rewritten in the same way when it was
\* set, and with no source when it was unset.
C8_Renamed ==
    Ran("merge") =>
        /\ \A i \in 1..ImportCount(req) : \A p \in 1..Len(StyleOf(i).sources) :
              LET rk == KeyFor(IdOf(i), StyleOf(i).sources[p].k)
              IN  /\ ObjHas(style.sources, rk)
                  /\ \E j \in 1..ImportCount(req) : \E r \in 1..Len(StyleOf(j).sources) :
                        /\ KeyFor(IdOf(j), StyleOf(j).sources[r].k) = rk
                        /\ ObjGet(style.sources, rk) = StyleOf(j).sources[r].v
        /\ \A q \in 1..Len(style.sources) :
              \/ ObjHas(style0.sources, style.sources[q].k)
              \/ \E i \in 1..ImportCount(req) : \E p \in 1..Len(StyleOf(i).sources) :
                    style.sources[q].k = KeyFor(IdOf(i), StyleOf(i).sources[p].k)
        /\ \A i \in 1..ImportCount(req) : \A p \in 1..Len(StyleOf(i).layers) :
              LET l == StyleOf(i).layers[p]
              IN  \E q \in 1..Len(style.layers) :
                    /\ style.layers[q].id = l.id
                    /\ style.layers[q].source =
                          IF Truthy(l.source)
                          THEN [t |-> "string", s |-> KeyFor(IdOf(i), l.source.s)]
                          ELSE [t |-> "undefined"]

\* two imports were merged: one brought a source 'composite', one a source
\* of another name, one a layer with a source and one a layer without
C8_Witness ==
    /\ Ran("merge")
    /\ ImportCount(req) = 2
    /\ \E i \in 1..2 : ObjHas(StyleOf(i).sources, s_composite)
    /\ \E i \in 1..2 : ObjHas(StyleOf(i).sources, Text.roads)
    /\ \E i \in 1..2 : \E p \in 1..Len(StyleOf(i).layers) :
          Truthy(StyleOf(i).layers[p].source)
    /\ \E i \in 1..2 : \E p \in 1..Len(StyleOf(i).layers) :
          ~Truthy(StyleOf(i).layers[p].source)

\* v is a value of the type the merge copies, and is not falsy
Defines(v, type) == v.t = type /\ Truthy(v)

\* the imports that define the property f
Defining(f) ==
    {i \in 1..ImportCount(req) :
        Defines(StyleOf(i)[f], IF f = "fog" THEN "object" ELSE "string")}

First(S) == CHOOSE i \in S : \A j \in S : i <= j

\* C9: after the merge, each of fog, glyphs and sprite has the base style's
\* value when the base style defines it; otherwise the value of the first
\* import that defines it; and is unset when none does.
C9_BaseWins ==
    Ran("merge") =>
        \A f \in {"fog", "glyphs", "sprite"} :
            IF Truthy(style0[f]) THEN style[f] = style0[f]
            ELSE IF Defining(f) # {} THEN style[f] = StyleOf(First(Defining(f)))[f]
            ELSE ~Truthy(style[f])

\* the base style has no glyphs, the first import does not define them and
\* the second does: the second import's glyphs are the style's
C9_Witness ==
    /\ Ran("merge")
    /\ ~Truthy(style0.glyphs)
    /\ Defining("glyphs") # {}
    /\ 1 \notin Defining("glyphs")
    /\ style.glyphs = StyleOf(First(Defining("glyphs"))).glyphs

\* the base style and an import define another fog: the base style's stays
C9_WitnessBase ==
    /\ Ran("merge")
    /\ Truthy(style0.fog)
    /\ \E i \in Defining("fog") : StyleOf(i).fog # style0.fog
    /\ style.fog = style0.fog

\* ------------------------------------------------------------ the icons
\* image j has settled and it did not resolve (no base64 part in a data
\* URL; a failed fetch or a status outside 200..299 for a remote URL), was
\* not decoded or was not registered
IconFailure(j) ==
    /\ imageSt[j].st # "pending"
    /\ \/ ImageUrl(req, j) = <<>>
       \/ /\ StartsWith(ImageUrl(req, j), s_data)
          /\ ~HasBase64(ImageUrl(req, j))
       \/ /\ ~StartsWith(ImageUrl(req, j), s_data)
          /\ ~(imageSt[j].resp.fail = "none" /\ imageSt[j].resp.status \in 200..299)
       \/ ~imageSt[j].decodes
       \/ ~imageSt[j].registers

\* C11: when an entry of the images map has failed to resolve (a status
\* outside 200..299 for a remote URL included), to decode or to register,
\* render has failed and the render call of the renderer was not issued.
C11_IconFailure ==
    (\E j \in 1..Len(imageSt) : IconFailure(j)) =>
        /\ pc = "done"
        /\ result.errors = 1
        /\ result.png = 0
        /\ map.renders = 0

\* an image answered 404 failed the request through the server
C11_Witness ==
    /\ req.via = "server"
    /\ \E j \in 1..Len(imageSt) :
          /\ IconFailure(j)
          /\ imageSt[j].resp.fail = "none"
          /\ imageSt[j].resp.status = 404
    /\ result.error = [stage |-> "icons", rule |-> "load"]

\* ---------------------------------------------------- C12
\* the request is refused by a check of its parameters, before anything
\* was fetched and before a renderer was made
RefusedAtOnce ==
    /\ pc = "done"
    /\ result.errors = 1
    /\ result.png = 0
    /\ result.error.stage = "validate"
    /\ net = <<>>
    /\ ~map.created
    /\ map.renders = 0

\* C12: a request that has neither both center and zoom nor bounds is
\* refused with a validation error before any fetch and any renderer call.
C12_NeedsViewInput ==
    (/\ pc # "start"
     /\ ~((req.center.t # "null" /\ req.zoom.t # "null") \/ req.bounds.t # "null"))
        => RefusedAtOnce

\* a request with a valid center, no zoom and no bounds was refused by the
\* cross-field check
C12_Witness ==
    /\ req.center = Arr(<<Num(7), Num(45)>>)
    /\ req.zoom = Null
    /\ req.bounds = Null
    /\ RefusedAtOnce
    /\ result.error = Err("validate", "crossfield")

\* ---------------------------------------------------- C13
\* v is a finite number of absolute value at most n
Within(v, n) == v.t = "number" /\ 0 - n <= v.n /\ v.n <= n

\* C13: for a center [lon, lat], the check of center accepts the request
\* exactly when |lon| <= 180 and |lat| <= 90; the values 180, -180, 90 and
\* -90 are accepted and a value that is not finite is refused.
C13_CenterRange ==
    (/\ pc # "start"
     /\ req.center.t = "array"
     /\ Len(req.center.a) = 2)
        => (result.error = Err("validate", "center")
                <=> ~(Within(req.center.a[1], 180) /\ Within(req.center.a[2], 90)))

\* the center [180, -90] reached the renderer and the image was sent
C13_Witness ==
    /\ req.center = Arr(<<Num(180), Num(0 - 90)>>)
    /\ map.opts.center = req.center
    /\ map.renders = 1
    /\ result.png = 1

\* ---------------------------------------------------- C14
\* the request was not refused by a rule that precedes the one of bounds
PassedBeforeBounds ==
    /\ pc # "start"
    /\ result.error \notin {Err("validate", "center"), Err("validate", "zoom"),
                            Err("validate", "ratio")}

\* C14: for bounds [west, south, east, north], the check of bounds refuses
\* the request exactly when west = east, south = north or a coordinate is
\* not finite; west > east and south > north are accepted.
C14_BoundsDegenerate ==
    (/\ PassedBeforeBounds
     /\ req.bounds.t = "array"
     /\ Len(req.bounds.a) = 4)
        => (result.error = Err("validate", "bounds")
                <=> \/ \E i \in 1..4 : req.bounds.a[i].t # "number"
                    \/ req.bounds.a[1] = req.bounds.a[3]
                    \/ req.bounds.a[2] = req.bounds.a[4])

\* bounds with west > east and south > north reached the renderer
C14_Witness ==
    /\ req.bounds = Arr(<<Num(20), Num(20), Num(10), Num(10)>>)
    /\ map.renders = 1
    /\ result.png = 1

\* ---------------------------------------------------- C15
\* twice the absolute value of the number v
TwiceAbs(v) == IF v.n < 0 THEN 0 - 2 * v.n ELSE 2 * v.n

BadImports ==
    /\ req.imports.t # "null"
    /\ \/ req.imports.t # "array"
       \/ \E i \in 1..Len(req.imports.a) :
             LET imp == req.imports.a[i]
             IN  \/ imp.url = <<>>
                 \/ imp.id = <<>>
                 \/ ~(StartsWith(imp.url, s_mapbox_styles) \/ IsURL(imp.url))

\* C16: a request whose imports are present and are no list, or have an
\* entry without url or id, or an entry whose url neither begins with
\* mapbox://styles nor is a well-formed URI, is refused with a validation
\* error, and no import is fetched.
C16_ImportsChecked ==
    (pc # "start" /\ BadImports) => RefusedAtOnce

\* a list of a good import followed by one whose url is no URI was refused
\* and the good import was not fetched
C16_Witness ==
    /\ req.imports.t = "array"
    /\ Len(req.imports.a) = 2
    /\ IsURL(req.imports.a[1].url)
    /\ ~IsURL(req.imports.a[2].url)
    /\ RefusedAtOnce
    /\ result.error = Err("validate", "imports")

\* ---------------------------------------------------- C17
\* C17: the renderer is given a viewport taken from the bounds exactly when
\* bounds are present and center or zoom is missing: the zoom is then the
\* zoom of the fit less one and at least 0, and the center is the one of the
\* fit, whatever center the caller gave; otherwise the renderer is given the
\* zoom and center of the caller.  (Math.max(zoom - 1, 0) of a fit whose zoom
\* is NaN is NaN.)
C17_ViewportFromBounds ==
    map.renders > 0 =>
        IF req.bounds.t # "null" /\ (req.center.t = "null" \/ req.zoom.t = "null")
        THEN \E fit \in Fits(req) :
                /\ map.opts.zoom = IF fit.zoom.t # "number" THEN fit.zoom
                                   ELSE Num(IF fit.zoom.n > 1 THEN fit.zoom.n - 1 ELSE 0)
                /\ map.opts.center = fit.center
        ELSE /\ map.opts.zoom = req.zoom
             /\ map.opts.center = req.center

\* bounds with a center and no zoom: the renderer got zoom 8 from a fit of
\* zoom 9, and the center of the fit in place of the caller's
C17_Witness ==
    /\ req.bounds.t # "null"
    /\ req.center = Arr(<<Num(7), Num(45)>>)
    /\ req.zoom = Null
    /\ map.renders = 1
    /\ map.opts.zoom = Num(8)
    /\ map.opts.center = Arr(<<Num(15), Num(15)>>)

\* ---------------------------------------------------- C18
\* C18: the buffer that is handed to the PNG encoder is the buffer of the
\* renderer with every pixel un-premultiplied: a pixel of alpha 0 has its
\* R, G and B set to 0, a pixel of alpha a > 0 has each of them divided by
\* a / 255 and stored as a byte, and the alpha of every pixel is as it was.
C18_Unpremultiplied ==
    map.outcome = "buffer" =>
        /\ Len(map.buffer) = Len(map.rendered)
        /\ \A k \in 1..(Len(map.rendered) \div 4) :
              LET alpha == map.rendered[4 * k]
              IN  /\ map.buffer[4 * k] = alpha
                  /\ \A c \in 1..3 :
                        map.buffer[4 * (k - 1) + c] =
                            IF alpha = 0 THEN 0
                            ELSE Unpremultiply(map.rendered[4 * (k - 1) + c], alpha)

\* through the server a half-transparent pixel was un-premultiplied and the
\* image was sent
C18_Witness ==
    /\ req.via = "server"
    /\ map.rendered = <<64, 32, 0, 128>>
    /\ map.buffer = <<127, 63, 0, 128>>
    /\ result.png = 1

\* ---------------------------------------------------- C19
\* C19: requestHandler hands a request of kind 2, 4, 5, 6 or 7 (source,
\* glyphs, sprite image, sprite JSON, image source) to the fetcher of
\* assets and one of kind 3 (tile) to the fetcher of tiles; for a mapbox://
\* URL of any kind, and for any other kind, the callback gets an error and
\* nothing is requested from the network.
C19_Dispatch ==
    (fpc # "idle" /\ rq.fetcher # "json") =>
        IF StartsWith(rq.url, s_mapbox_scheme) \/ rq.kind \notin {2, 3, 4, 5, 6, 7}
        THEN /\ fpc = "done"
             /\ calls = <<CbError>>
             /\ net = <<>>
        ELSE /\ rq.fetcher = (IF rq.kind = 3 THEN "tile" ELSE "asset")
             /\ net = <<rq.url>>

\* a tile request for an http URL went to the fetcher of tiles, which
\* requested the URL
C19_Witness ==
    /\ rq.kind = 3
    /\ rq.url = Text.http_a
    /\ rq.fetcher = "tile"
    /\ net = <<Text.http_a>>
    /\ fpc = "done"

\* a sprite request for a mapbox:// URL was answered with an error
C19_WitnessMapbox ==
    /\ rq.kind = 5
    /\ rq.url = Text.mapbox_tiles
    /\ calls = <<CbError>>
    /\ net = <<>>

\* ---------------------------------------------------- C20
\* C20: the map that render makes has the dispatcher registered as its
\* request function, and every resource request the renderer issues while
\* the style loads and the map renders is delivered to requestHandler, once.
C20_Dispatched ==
    map.created =>
        /\ "request" \in map.options
        /\ map.delivered = map.issued

\* the renderer issued a resource request and the image was sent
C20_Witness ==
    /\ map.issued > 0
    /\ result.png = 1

\* ---------------------------------------------------- C21
\* the style that the merge of the imports of the request gives when the
\* imports are taken in the order of the request
MergedInRequestOrder ==
    MergeImports(style0, ImportIds(req),
                 [j \in 1..Len(importSt) |-> getRemoteStyleImport(served[j]).value]).style

\* C21: in whatever order the fetches of the imports settle, the style is
\* the base style as long as an import has not resolved, and once all have
\* resolved it is the merge of the imports in the order of the request.
C21_MergeAfterAll ==
    Len(importSt) > 0 =>
        IF \E j \in 1..Len(importSt) : importSt[j].st # "resolved"
        THEN style = style0
        ELSE style = MergedInRequestOrder

\* the second import settled before the first, and the merge changed the
\* style
C21_Witness ==
    /\ Len(importSt) = 2
    /\ importSt[2].at = 1
    /\ importSt[1].at = 2
    /\ Ran("merge")
    /\ style # style0
    /\ style = MergedInRequestOrder

\* ---------------------------------------------------- C22
\* the stages of a request in the order of the claim, as the log names them
StageOrder ==
    <<"validate", "viewport", "imports", "merge", "mbtiles", "create", "load",
      "icons", "render", "release", "png">>

\* the place of stage s in that order
StagePlace(s) == CHOOSE i \in 1..Len(StageOrder) : StageOrder[i] = s

\* C22: the stages of a request occur in the order parameter checks,
\* viewport, import fetch and merge, mbtiles check, creation of the renderer
\* and style load, icon loading, render call, release, PNG encoding; an icon
\* load starts only after the imports were merged, and the render call is
\* issued only after every icon load has completed.
C22_StageOrder ==
    /\ \A p, q \in 1..Len(log) :
          /\ \E i \in 1..Len(StageOrder) : StageOrder[i] = log[p]
          /\ p < q => StagePlace(log[p]) < StagePlace(log[q])
    /\ Len(imageSt) > 0 =>
          /\ \A i \in 1..Len(importSt) : importSt[i].st = "resolved"
          /\ Len(importSt) > 0 => Ran("merge")
    /\ map.renders > 0 =>
          /\ Ran("icons")
          /\ \A j \in 1..Len(imageSt) : imageSt[j].st = "loaded"

\* a request with imports and images went through every stage and its image
\* was sent
C22_Witness ==
    /\ Len(importSt) > 0
    /\ Len(imageSt) > 1
    /\ log = StageOrder
    /\ result.png = 1

\* ---------------------------------------------------- C23
\* the rules of the parameter checks in the order of the claim, each with
\* whether the request breaks it
RulesBroken ==
    <<[rule |-> "center", broken |-> CenterError(req.center)],
      [rule |-> "zoom", broken |-> req.zoom.t = "number" /\ ~(0 <= req.zoom.n /\ req.zoom.n <= 22)],
      [rule |-> "ratio", broken |-> req.ratio.t = "number" /\ req.ratio.n < 1],
      [rule |-> "bounds", broken |-> BoundsError(req.bounds)],
      [rule |-> "padding", broken |-> PaddingError(req)],
      [rule |-> "bearing",
       broken |-> req.bearing.t = "number" /\ ~(0 <= req.bearing.n /\ req.bearing.n <= 360)],
      [rule |-> "pitch",
       broken |-> req.pitch.t = "number" /\ ~(0 <= req.pitch.n /\ req.pitch.n <= 60)],
      [rule |-> "crossfield", broken |-> CrossFieldError(req)],
      [rule |-> "images", broken |-> ImagesError(req.images)],
      [rule |-> "imports", broken |-> ImportsError(req.imports)]>>

\* C23: a request that breaks several rules of the parameter checks is
\* refused with the error of the first rule it breaks, in the order center,
\* zoom, ratio, bounds, padding, bearing, pitch, cross-field, images,
\* imports, and render is not called.
C23_FirstRule ==
    pc # "start" =>
        \A i \in 1..Len(RulesBroken) :
            (/\ RulesBroken[i].broken
             /\ \A j \in 1..(i - 1) : ~RulesBroken[j].broken)
                => /\ RefusedAtOnce
                   /\ result.error = Err("validate", RulesBroken[i].rule)
                   /\ log = <<>>

\* a request that breaks the rules of zoom, ratio, padding, pitch, images
\* and imports was refused for its zoom
C23_Witness ==
    /\ Cardinality({i \in 1..Len(RulesBroken) : RulesBroken[i].broken}) >= 6
    /\ ~RulesBroken[1].broken
    /\ RefusedAtOnce
    /\ result.error = Err("validate", "zoom")

\* ---------------------------------------------------- C24
\* C24: whenever the render call of the renderer is issued, the zoom it is
\* given is a number from 0 to 22 and the center a pair of a longitude from
\* -180 to 180 and a latitude from -90 to 90; neither is null nor NaN.
C24_ViewportInRange ==
    map.renders > 0 =>
        /\ map.opts.zoom.t = "number"
        /\ 0 <= map.opts.zoom.n /\ map.opts.zoom.n <= 22
        /\ map.opts.center.t = "array"
        /\ Len(map.opts.center.a) = 2
        /\ Within(map.opts.center.a[1], 180)
        /\ Within(map.opts.center.a[2], 90)

\* the render call was issued with the zoom and center of the caller
C24_Witness ==
    /\ map.renders = 1
    /\ map.opts = [zoom |-> Num(5), center |-> Arr(<<Num(7), Num(45)>>)]

\* ---------------------------------------------------- C25
\* the style, the viewport and the error of the request c are those that
\* its own parameters, its own style document and the answers to its own
\* fetches give
OwnOutcome(c) ==
    /\ c.style =
          IF Len(c.importSt) > 0 /\ \A j \in 1..Len(c.importSt) : c.importSt[j].st = "resolved"
          THEN MergeImports(c.style0, ImportIds(c.req),
                            [j \in 1..Len(c.importSt) |->
                                getRemoteStyleImport(c.served[j]).value]).style
          ELSE c.style0
    /\ c.pc # "start" =>
          \E fit \in Fits(c.req) : c.viewport = Viewport(c.req, fit)
    /\ c.map.renders > 0 => c.map.opts = c.viewport
    /\ \A j \in 1..Len(c.importSt) :
          c.importSt[j].st # "pending" =>
              (c.importSt[j].st = "resolved" <=> getRemoteStyleImport(c.served[j]).ok)
    /\ c.result.error = Err("import", "import") <=>
          \E j \in 1..Len(c.importSt) :
              c.importSt[j].st # "pending" /\ ~getRemoteStyleImport(c.served[j]).ok
    /\ c.result.png > 0 =>
          \A j \in 1..Len(c.served) : getRemoteStyleImport(c.served[j]).ok

C26_TileCallback ==
    /\ []((fpc = "done" /\ rq.fetcher = "tile" /\ rq.resp.fail = "aborted")
            => calls = <<CbError>>)
    /\ (fpc = "fetching" /\ rq.fetcher = "tile") ~> (calls # <<>>)

\* a tile fetch was aborted by the timer and its callback got an error
C26_Witness ==
    /\ fpc = "done"
    /\ rq.fetcher = "tile"
    /\ rq.resp.fail = "aborted"
    /\ calls = <<CbError>>

\* ---------------------------------------------------- C27
\* C27: the callback of a resource request is invoked at most once; it is
\* never invoked with a result and then again with an error, the callback
\* that throws while it receives the result included.
C27_CalledOnce ==
    /\ Len(calls) <= 1
    /\ ~(\E i, j \in 1..Len(calls) : i < j /\ calls[i] # CbError /\ calls[j] = CbError)

\* the callback threw on a result and was invoked again, with an error
C27_CalledTwice ==
    /\ fpc = "done"
    /\ rq.throws
    /\ Len(calls) = 2
    /\ calls[1] # CbError
    /\ calls[2] = CbError

\* ---------------------------------------------------- C28
\* C28: when the resolution of the imports fails for a request (a fetch
\* fails, a payload is refused, or an accepted payload of version 8 has no
\* sources or no layers), the style document of the caller is as it was
\* passed in: sources, layers, fog, glyphs and sprite are unchanged.
C28_StyleAsPassed ==
    (pc = "done" /\ result.error.stage \in {"import", "merge"}) =>
        \A f \in {"sources", "layers", "fog", "glyphs", "sprite"} :
            style[f] = style0[f]

\* the merge failed on an accepted import without layers, after the
\* sources of an import were written into the caller's style
C28_PartlyMerged ==
    /\ pc = "done"
    /\ result.error = Err("merge", "TypeError")
    /\ style.sources # style0.sources

\* ---------------------------------------------------- C29
\* C29: whenever render takes the viewport from the bounds, both sides of
\* the window it fits them into, width - 2 * padding and
\* height - 2 * padding, are greater than zero.
C29_WindowPositive ==
    (Ran("viewport") /\ DerivesViewport(req)) =>
        FitWindow(req)[1] > 0 /\ FitWindow(req)[2] > 0

\* the viewport was taken from the bounds for a window with a negative side
C29_NegativeWindow ==
    /\ Ran("viewport")
    /\ DerivesViewport(req)
    /\ FitWindow(req)[1] < 0
    /\ req.padding = Num(0)

\* ---------------------------------------------------- C30
\* C30: every import URL that begins with mapbox://styles, which the checks
\* of renderImage exempt from the test of a well-formed URL, is fetched as
\* https://api.mapbox.com with its path, access_token and secure=true, and
\* is never fetched as it was given.
C30_ExemptRewritten ==
    Ran("imports") =>
        \A i \in 1..ImportCount(req) :
            LET url == req.imports.a[i].url
            IN  StartsWith(url, s_mapbox_styles) =>
                    /\ \A p \in 1..Len(net) : net[p] # url
                    /\ \E p \in 1..Len(net) :
                          net[p] = s_api_mapbox
                                     \o SubSeq(url, Len(s_mapbox_styles) + 1, Len(url))
                                     \o s_access_token \o TokenText(req.token) \o s_secure

\* an import URL that begins with mapbox://styles and not with
\* mapbox://styles/ was fetched as it was given
C30_FetchedUnchanged ==
    /\ Ran("imports")
    /\ \E i \in 1..ImportCount(req) : \E p \in 1..Len(net) :
          /\ StartsWith(req.imports.a[i].url, s_mapbox_styles)
          /\ net[p] = req.imports.a[i].url
=============================================================================
